---- MODULE Spec2Model ----
(***************************************************************************)
(* MultiAccountTrade/engine.py, class MainEngine: the event-driven state   *)
(* cache (six registries and the active-order index), the dispatcher that  *)
(* feeds it, and the taker-order router (buy / sell / short / cover).      *)
(*                                                                         *)
(* Threads: every gateway publishes events into the event queue; one       *)
(* dispatcher thread pops them and runs the _process_*_event handlers; a   *)
(* caller thread runs the trading intents, reading the registries while    *)
(* the dispatcher writes them.                                             *)
(***************************************************************************)
EXTENDS Integers, Sequences, FiniteSets, TLC

(* ------------------------------ bounds --------------------------------- *)
MaxVol == 2       \* largest position volume and largest requested volume
MaxEvents == 3    \* events the gateways publish in one run

(* ----------------------------- universe -------------------------------- *)
\* Gateways are the names registered by _add_gateways; "GX" is a name an intent
\* may pass that no gateway is registered under.  Only a registered gateway
\* holds the event engine, so every event carries a registered gateway_name.
\* A vt_symbol is the pair (symbol, exchange); a vt_positionid is the triple
\* (gateway_name, vt_symbol, direction).  Volumes and prices are integers.
Gateways == {"G1", "G2"}
GatewayNames == Gateways \cup {"GX"}
Symbols == {"X"}
AgingExchangesAll == {"SHFE", "INE", "CFFEX"}

AgingExchanges == {"SHFE", "INE"}
Exchanges == AgingExchanges \cup {"CFFEX"}
VtSymbols == Symbols \X Exchanges
Directions == {"LONG", "SHORT"}
PositionIds == Gateways \X VtSymbols \X Directions
OrderRef == [g \in Gateways |->
               IF g = "G1" THEN <<"G1.1", "G1.2", "G1.3", "G1.4">>
                           ELSE <<"G2.1", "G2.2", "G2.3", "G2.4">>]
OrderIds == UNION {{OrderRef[g][i] : i \in 1..Len(OrderRef[g])} : g \in Gateways}
TradeRef == [g \in Gateways |-> IF g = "G1" THEN "G1.t1" ELSE "G2.t1"]
TradeIds == {TradeRef[g] : g \in Gateways}
ActiveStatuses == {"NOTTRADED", "PARTTRADED"}
Statuses == ActiveStatuses \cup {"ALLTRADED", "CANCELLED", "REJECTED"}
Quotes == {[bid_price_1 |-> 99, ask_price_1 |-> 101]}
PriceTicks == {1, 2}
Balances == {0}

NoneVal == [none |-> TRUE]

(* ------------------------- vnpy data objects --------------------------- *)
TickData(s, q) ==
    [vt_symbol |-> s, bid_price_1 |-> q.bid_price_1, ask_price_1 |-> q.ask_price_1]

ContractData(s, p) ==
    [symbol |-> s[1], exchange |-> s[2], vt_symbol |-> s, pricetick |-> p]

PositionData(g, s, d, v, f, y) ==
    [gateway_name |-> g, vt_symbol |-> s, direction |-> d,
     vt_positionid |-> <<g, s, d>>, volume |-> v, frozen |-> f, yd_volume |-> y]

OrderData(g, o, st) ==
    [gateway_name |-> g, vt_orderid |-> o, status |-> st]

\* trade.direction is a Direction member (an object with a value) or, when the
\* gateway left the field at its default, None
TradeDirections == {[value |-> "LONG"]}
TradeDirectionsOrNone == TradeDirections \cup {NoneVal}

TradeData(g, t, d) ==
    [gateway_name |-> g, vt_tradeid |-> t, direction |-> d]

AccountData(g, b) ==
    [gateway_name |-> g, balance |-> b]

LogData(g, m, detail) ==
    [gateway_name |-> g, msg |-> m, detail |-> detail]

OrderRequest(symbol, exchange, price, volume, direction, offset, type) ==
    [symbol |-> symbol, exchange |-> exchange, price |-> price, volume |-> volume,
     direction |-> direction, offset |-> offset, type |-> type]

Event(t, d) == [type |-> t, data |-> d]

is_active(order) == order.status \in ActiveStatuses

(* ------------------------------- state --------------------------------- *)
VARIABLES
    ticks, orders, trades, accounts, contracts, positions, active_orders,
    queue,       \* event_engine's queue
    dpc,         \* dispatcher: "idle", or "l205" inside _process_order_event
    devent,      \* the event the dispatcher is handling
    published,   \* number of events the gateways have published
    lastput,     \* per id, the last order / position / contract event put; the
                 \* trade ids put; the order ids a terminal event was handled for
    cpc,         \* caller: "idle", its line inside _send_taker_order, or "done"
    cargs,       \* the running intent's arguments
    ctick, ccontract, cposition,   \* what the running intent read from the cache
    ret,         \* vt_orderids of the running intent
    sent,        \* gateway.send_order calls made by the running intent
    logged,      \* log messages put by the running operation
    corder,      \* the active order cancel_active_order read
    cancels,     \* gateway.cancel_order calls made by the running operation
    subscribed,  \* gateway.subscribe calls made by the running operation
    prev         \* arguments and send_order calls of the intent that returned

cache == <<ticks, orders, trades, accounts, contracts, positions, active_orders>>
disp == <<dpc, devent>>
feed == <<published, lastput>>
side == <<corder, cancels, subscribed, prev>>
caller == <<cpc, cargs, ctick, ccontract, cposition, ret, sent, logged, side>>
vars == <<cache, queue, disp, feed, caller>>

EmptyTicks == [s \in VtSymbols |-> NoneVal]
EmptyContracts == [s \in VtSymbols |-> NoneVal]
EmptyPositions == [p \in PositionIds |-> NoneVal]
EmptyOrders == [o \in OrderIds |-> NoneVal]

CallerInit ==
    /\ cpc = "idle"
    /\ cargs = NoneVal
    /\ ctick = NoneVal
    /\ ccontract = NoneVal
    /\ cposition = NoneVal
    /\ ret = <<>>
    /\ sent = <<>>
    /\ logged = <<>>
    /\ corder = NoneVal
    /\ cancels = <<>>
    /\ subscribed = <<>>
    /\ prev = NoneVal

EngineInit ==
    /\ orders = EmptyOrders
    /\ trades = [t \in TradeIds |-> NoneVal]
    /\ accounts = [g \in Gateways |-> NoneVal]
    /\ active_orders = EmptyOrders
    /\ queue = <<>>
    /\ dpc = "idle"
    /\ devent = NoneVal
    /\ published = 0
    /\ lastput = [order |-> EmptyOrders, position |-> EmptyPositions, trade |-> {},
                  contract |-> EmptyContracts, terminated |-> {}]

Init ==
    /\ ticks = EmptyTicks
    /\ contracts = EmptyContracts
    /\ positions = EmptyPositions
    /\ EngineInit
    /\ CallerInit

(* ----------------------------- accessors ------------------------------- *)
get_gateway(gateway_name) ==
    IF gateway_name \in Gateways THEN [gateway_name |-> gateway_name] ELSE NoneVal

get_tick(vt_symbol) == ticks[vt_symbol]

get_contract(vt_symbol) == contracts[vt_symbol]

get_position(vt_positionid) ==
    IF vt_positionid \in DOMAIN positions THEN positions[vt_positionid] ELSE NoneVal

get_active_orderFromOrders(vt_orderid) == orders[vt_orderid]

get_active_order(vt_orderid) == active_orders[vt_orderid]

(* --------------------- gateways publishing events ---------------------- *)
\* A gateway thread puts an event on the queue at any time.  lastput records,
\* per order and position id, the last event put, and the trade ids put.
put(event) == Append(queue, event)

Publish(event) ==
    /\ published < MaxEvents
    /\ published' = published + 1
    /\ queue' = put(event)
    /\ lastput' =
         CASE event.type = "eOrder" ->
                [lastput EXCEPT !.order[event.data.vt_orderid] = event.data]
           [] event.type = "ePosition" ->
                [lastput EXCEPT !.position[event.data.vt_positionid] = event.data]
           [] event.type = "eTrade" ->
                [lastput EXCEPT !.trade = @ \cup {event.data.vt_tradeid}]
           [] event.type = "eContract" ->
                [lastput EXCEPT !.contract[event.data.vt_symbol] = event.data]
           [] OTHER -> lastput
    /\ UNCHANGED <<cache, disp, caller>>

on_tick(g, s, q) == Publish(Event("eTick", TickData(s, q)))

on_contract(g, s, p) == Publish(Event("eContract", ContractData(s, p)))

on_position(g, s, d, v, f, y) ==
    Publish(Event("ePosition", PositionData(g, s, d, v, f, y)))

on_order(g, o, st) == Publish(Event("eOrder", OrderData(g, o, st)))

on_trade(g, t, d) == Publish(Event("eTrade", TradeData(g, t, d)))

on_account(g, b) == Publish(Event("eAccount", AccountData(g, b)))

(* ---------------------------- dispatcher ------------------------------- *)
\* One thread pops the head of the queue and runs the handler registered for
\* its type.  _process_order_event writes two dictionaries in two statements
\* with no lock, so other threads can run between them: it is two steps.  The
\* other handlers write one dictionary each.
Pending(type) == dpc = "idle" /\ queue # <<>> /\ Head(queue).type = type

_process_tick_event ==
    /\ Pending("eTick")
    /\ LET tick == Head(queue).data IN
         ticks' = [ticks EXCEPT ![tick.vt_symbol] = tick]
    /\ queue' = Tail(queue)
    /\ UNCHANGED <<orders, trades, accounts, contracts, positions, active_orders,
                   disp, feed, caller>>

_process_order_event_l203 ==
    /\ Pending("eOrder")
    /\ LET order == Head(queue).data IN
         orders' = [orders EXCEPT ![order.vt_orderid] = order]
    /\ devent' = Head(queue)
    /\ dpc' = "l205"
    /\ queue' = Tail(queue)
    /\ UNCHANGED <<ticks, trades, accounts, contracts, positions, active_orders,
                   feed, caller>>

ActiveOrdersUpdateNoPop(order) ==
    IF is_active(order)
    THEN [active_orders EXCEPT ![order.vt_orderid] = order]
    ELSE active_orders

ActiveOrdersUpdateKeepTerminal(order) ==
    IF is_active(order) /\ order.vt_orderid \notin lastput.terminated
    THEN [active_orders EXCEPT ![order.vt_orderid] = order]
    ELSE IF active_orders[order.vt_orderid] # NoneVal
         THEN [active_orders EXCEPT ![order.vt_orderid] = NoneVal]
         ELSE active_orders

ActiveOrdersUpdate(order) ==
    IF is_active(order)
    THEN [active_orders EXCEPT ![order.vt_orderid] = order]
    ELSE IF active_orders[order.vt_orderid] # NoneVal
         THEN [active_orders EXCEPT ![order.vt_orderid] = NoneVal]
         ELSE active_orders

_process_order_event_l205 ==
    /\ dpc = "l205"
    /\ active_orders' = ActiveOrdersUpdate(devent.data)
    /\ lastput' = IF is_active(devent.data) THEN lastput
                  ELSE [lastput EXCEPT !.terminated = @ \cup {devent.data.vt_orderid}]
    /\ dpc' = "idle"
    /\ devent' = NoneVal
    /\ UNCHANGED <<ticks, orders, trades, accounts, contracts, positions,
                   queue, published, caller>>

_process_trade_event ==
    /\ Pending("eTrade")
    /\ LET trade == Head(queue).data IN
         /\ trade.direction # NoneVal
         /\ trades' = [trades EXCEPT ![trade.vt_tradeid] = trade]
         /\ queue' = Append(Tail(queue),
                            Event("eLog", LogData(trade.gateway_name, "Trade", trade)))
    /\ UNCHANGED <<ticks, orders, accounts, contracts, positions, active_orders,
                   disp, feed, caller>>

\* trade.direction.value (line 213) raises AttributeError when direction is
\* None, after line 212 has stored the trade and before self.log is called.
\* No handler and no registration in the engine has a try/except, so the
\* exception reaches the loop of vnpy's EventEngine, which catches only
\* queue.Empty: the dispatcher thread ends and nothing is dispatched after.
_process_trade_event_raises ==
    /\ Pending("eTrade")
    /\ LET trade == Head(queue).data IN
         /\ trade.direction = NoneVal
         /\ trades' = [trades EXCEPT ![trade.vt_tradeid] = trade]
    /\ queue' = Tail(queue)
    /\ dpc' = "dead"
    /\ UNCHANGED <<ticks, orders, accounts, contracts, positions, active_orders,
                   devent, feed, caller>>

_process_position_event ==
    /\ Pending("ePosition")
    /\ LET position == Head(queue).data IN
         positions' = [positions EXCEPT ![position.vt_positionid] = position]
    /\ queue' = Tail(queue)
    /\ UNCHANGED <<ticks, orders, trades, accounts, contracts, active_orders,
                   disp, feed, caller>>

ContractsUpdateOverwrite(contract) ==
    [contracts EXCEPT ![contract.vt_symbol] = contract]

ContractsUpdate(contract) ==
    IF get_contract(contract.vt_symbol) = NoneVal
    THEN [contracts EXCEPT ![contract.vt_symbol] = contract]
    ELSE contracts

_process_contract_event ==
    /\ Pending("eContract")
    /\ LET contract == Head(queue).data IN
         contracts' = ContractsUpdate(contract)
    /\ queue' = Tail(queue)
    /\ UNCHANGED <<ticks, orders, trades, accounts, positions, active_orders,
                   disp, feed, caller>>

_process_account_event ==
    /\ Pending("eAccount")
    /\ LET account == Head(queue).data IN
         accounts' = [accounts EXCEPT ![account.gateway_name] = account]
    /\ queue' = Tail(queue)
    /\ UNCHANGED <<ticks, orders, trades, contracts, positions, active_orders,
                   disp, feed, caller>>

_process_log_event ==
    /\ Pending("eLog")
    /\ queue' = Tail(queue)
    /\ UNCHANGED <<cache, disp, feed, caller>>

(* ------------------------------ router --------------------------------- *)
\* _send_taker_order runs on the caller's thread.  It reads the cache three
\* times (get_tick, get_contract, get_position), one step each; what it read
\* is kept in ctick, ccontract, cposition, and everything after is computed
\* from those.  Every gateway.send_order call is one step and is recorded in
\* sent with the identifier the gateway returned ("" when it returned none).
MissingDataBoth(tick, contract) == tick = NoneVal /\ contract = NoneVal

MissingData(tick, contract) == tick = NoneVal \/ contract = NoneVal

TakerPriceSidesSwapped(tick, contract, direction) ==
    IF direction = "LONG"
    THEN tick.bid_price_1 - contract.pricetick * 2
    ELSE tick.ask_price_1 + contract.pricetick * 2

TakerPrice(tick, contract, direction) ==
    IF direction = "LONG"
    THEN tick.ask_price_1 + contract.pricetick * 2
    ELSE tick.bid_price_1 - contract.pricetick * 2

ClosePositionIdFirstGateway(gateway_name, contract, direction) ==
    IF direction = "LONG"
    THEN <<"G1", contract.vt_symbol, "SHORT">>
    ELSE <<"G1", contract.vt_symbol, "LONG">>

ClosePositionId(gateway_name, contract, direction) ==
    IF direction = "LONG"
    THEN <<gateway_name, contract.vt_symbol, "SHORT">>
    ELSE <<gateway_name, contract.vt_symbol, "LONG">>

CloseCheckIgnoringFrozen(position, volume) ==
    IF position = NoneVal THEN "Position data is none"
    ELSE IF position.volume < volume THEN "No enough close volume"
    ELSE "ok"

CloseCheckCountingPrev(position, volume) ==
    LET closing == IF prev = NoneVal \/ prev.args.offset # "CLOSE" THEN 0
                   ELSE IF prev.sent = <<>> THEN 0 ELSE prev.args.volume
    IN  IF position = NoneVal THEN "Position data is none"
        ELSE IF position.volume - position.frozen - closing < volume
             THEN "No enough close volume"
        ELSE "ok"

CloseCheck(position, volume) ==
    IF position = NoneVal THEN "Position data is none"
    ELSE IF position.volume - position.frozen < volume THEN "No enough close volume"
    ELSE "ok"

SplitReqsIgnoringFrozen(req, position, volume) ==
    LET req_yd == [req EXCEPT !.volume = position.yd_volume,
                              !.offset = "CLOSEYESTERDAY"]
        req_td == [req_yd EXCEPT !.volume = volume - req_yd.volume,
                                 !.offset = "CLOSETODAY"]
    IN  <<req_td, req_yd>>

SplitReqsYesterdayFirst(req, position, volume) ==
    LET req_yd == [req EXCEPT !.volume = position.yd_volume - position.frozen,
                              !.offset = "CLOSEYESTERDAY"]
        req_td == [req_yd EXCEPT !.volume = volume - req_yd.volume,
                                 !.offset = "CLOSETODAY"]
    IN  <<req_yd, req_td>>

SplitReqs(req, position, volume) ==
    LET req_yd == [req EXCEPT !.volume = position.yd_volume - position.frozen,
                              !.offset = "CLOSEYESTERDAY"]
        req_td == [req_yd EXCEPT !.volume = volume - req_yd.volume,
                                 !.offset = "CLOSETODAY"]
    IN  <<req_td, req_yd>>

CloseReqsNoTodayOnly(req, position, volume) ==
    IF req.exchange \in AgingExchanges
    THEN IF position.volume = position.yd_volume
         THEN <<[req EXCEPT !.offset = "CLOSEYESTERDAY"]>>
         ELSE SplitReqs(req, position, volume)
    ELSE <<req>>

CloseReqsNoYesterdayOnly(req, position, volume) ==
    IF req.exchange \in AgingExchanges
    THEN IF position.yd_volume = 0
         THEN <<[req EXCEPT !.offset = "CLOSETODAY"]>>
         ELSE SplitReqs(req, position, volume)
    ELSE <<req>>

CloseReqs(req, position, volume) ==
    IF req.exchange \in AgingExchanges
    THEN IF position.yd_volume = 0
         THEN <<[req EXCEPT !.offset = "CLOSETODAY"]>>
         ELSE IF position.volume = position.yd_volume
              THEN <<[req EXCEPT !.offset = "CLOSEYESTERDAY"]>>
              ELSE SplitReqs(req, position, volume)
    ELSE <<req>>

TakerReqs(tick, contract, position, volume, direction, offset) ==
    LET price == TakerPrice(tick, contract, direction)
        req == OrderRequest(contract.symbol, contract.exchange, price, volume,
                            direction, offset, "LIMIT")
    IN  IF offset = "CLOSE" THEN CloseReqs(req, position, volume) ELSE <<req>>

reqs == TakerReqs(ctick, ccontract, cposition, cargs.volume, cargs.direction,
                  cargs.offset)

log(msg, gateway_name, detail) ==
    /\ queue' = put(Event("eLog", LogData(gateway_name, msg, detail)))
    /\ logged' = Append(logged, LogData(gateway_name, msg, detail))

_send_taker_order(intent, vt_symbol, volume, direction, offset, gateway_name) ==
    /\ cpc = "idle"
    /\ cargs' = [intent |-> intent, vt_symbol |-> vt_symbol, volume |-> volume, direction |-> direction,
                 offset |-> offset, gateway_name |-> gateway_name]
    /\ ctick' = get_tick(vt_symbol)
    /\ cpc' = "l134"
    /\ UNCHANGED <<cache, queue, disp, feed, ccontract, cposition, ret, sent, logged,
                   side>>

buy(vt_symbol, volume, gateway_name) ==
    _send_taker_order("buy", vt_symbol, volume, "LONG", "OPEN", gateway_name)

sell(vt_symbol, volume, gateway_name) ==
    _send_taker_order("sell", vt_symbol, volume, "SHORT", "CLOSE", gateway_name)

short(vt_symbol, volume, gateway_name) ==
    _send_taker_order("short", vt_symbol, volume, "SHORT", "OPEN", gateway_name)

cover(vt_symbol, volume, gateway_name) ==
    _send_taker_order("cover", vt_symbol, volume, "LONG", "CLOSE", gateway_name)

_send_taker_order_l134 ==
    /\ cpc = "l134"
    /\ LET contract == get_contract(cargs.vt_symbol) IN
         /\ ccontract' = contract
         /\ IF MissingData(ctick, contract)
            THEN /\ ret' = Append(ret, "")
                 /\ log("Tick or contract data is none", cargs.gateway_name, NoneVal)
                 /\ cpc' = "done"
            ELSE /\ cpc' = IF cargs.offset = "CLOSE" THEN "l158" ELSE "l187"
                 /\ UNCHANGED <<ret, queue, logged>>
    /\ UNCHANGED <<cache, disp, feed, cargs, ctick, cposition, sent, side>>

_send_taker_order_l158 ==
    /\ cpc = "l158"
    /\ LET position == get_position(ClosePositionId(cargs.gateway_name, ccontract,
                                                    cargs.direction))
           check == CloseCheck(position, cargs.volume)
       IN
         /\ cposition' = position
         /\ IF check # "ok"
            THEN /\ ret' = Append(ret, "")
                 /\ log(check, cargs.gateway_name, NoneVal)
                 /\ cpc' = "done"
            ELSE /\ cpc' = "l187"
                 /\ UNCHANGED <<ret, queue, logged>>
    /\ UNCHANGED <<cache, disp, feed, cargs, ctick, ccontract, sent, side>>

SendResults(gateway_name, n) == {OrderRef[gateway_name][n], ""}

\* send_order calls the gateway has received so far
SendCount == Len(sent) + IF prev = NoneVal THEN 0 ELSE Len(prev.sent)

_send_order ==
    /\ cpc = "l187"
    /\ LET req == reqs[Len(ret) + 1]
           gateway == get_gateway(cargs.gateway_name)
       IN
         /\ IF gateway # NoneVal
            THEN \E vt_orderid \in SendResults(gateway.gateway_name, SendCount + 1) :
                   /\ sent' = Append(sent, [gateway_name |-> gateway.gateway_name,
                                            req |-> req, vt_orderid |-> vt_orderid])
                   /\ log("Send order", cargs.gateway_name,
                          [vt_orderid |-> vt_orderid, req |-> req])
                   /\ ret' = Append(ret, vt_orderid)
            ELSE /\ ret' = Append(ret, "")
                 /\ UNCHANGED <<sent, queue, logged>>
         /\ cpc' = IF Len(ret) + 1 = Len(reqs) THEN "done" ELSE "l187"
    /\ UNCHANGED <<cache, disp, feed, cargs, ctick, ccontract, cposition, side>>

\* gateway.send_order (line 124) is a call into the gateway's API and can raise
\* instead of returning; neither _send_order nor _send_taker_order has a
\* try/except, so the exception leaves the intent: nothing is logged, nothing
\* is returned and the remaining legs are not sent.
_send_order_raises ==
    /\ cpc = "l187"
    /\ get_gateway(cargs.gateway_name) # NoneVal
    /\ cpc' = "raised"
    /\ UNCHANGED <<cache, queue, disp, feed, cargs, ctick, ccontract, cposition, ret,
                   sent, logged, side>>

\* The intent returns to its caller (line 190, or 139/164/168 on an abort):
\* its locals are gone; the engine keeps nothing of the call.  prev records
\* what the call was given and what it sent, for comparison only.
Return ==
    /\ cpc = "done"
    /\ prev = NoneVal
    /\ prev' = [args |-> cargs, sent |-> sent, ret |-> ret]
    /\ cpc' = "idle"
    /\ cargs' = NoneVal
    /\ ctick' = NoneVal
    /\ ccontract' = NoneVal
    /\ cposition' = NoneVal
    /\ ret' = <<>>
    /\ sent' = <<>>
    /\ logged' = <<>>
    /\ UNCHANGED <<cache, queue, disp, feed, corder, cancels, subscribed>>

(* --------------------------- cancellation ------------------------------ *)
\* cancel_active_order runs on the caller's thread: it reads active_orders
\* (line 334), calls the gateway named by the order it read (337), then logs
\* (338, without a gateway name); one step each.
CancelRequest(order) == [orderid |-> order.vt_orderid]

cancel_active_order(vt_orderid) ==
    /\ cpc = "idle"
    /\ cargs' = [intent |-> "cancel", vt_orderid |-> vt_orderid]
    /\ LET active_order == get_active_order(vt_orderid) IN
         /\ corder' = active_order
         /\ cpc' = IF active_order # NoneVal THEN "l337" ELSE "done"
    /\ UNCHANGED <<cache, queue, disp, feed, ctick, ccontract, cposition, ret, sent,
                   logged, cancels, subscribed, prev>>

\* cancel_active_order and _cancel_order assign nothing in the engine: the
\* order stays indexed until the gateway reports it cancelled.
ActiveOrdersAfterCancelPopped(order) ==
    [active_orders EXCEPT ![order.vt_orderid] = NoneVal]

ActiveOrdersAfterCancel(order) == active_orders

_cancel_order ==
    /\ cpc = "l337"
    /\ LET req == CancelRequest(corder)
           gateway == get_gateway(corder.gateway_name)
       IN  cancels' = IF gateway # NoneVal
                      THEN Append(cancels, [gateway_name |-> gateway.gateway_name,
                                            req |-> req])
                      ELSE cancels
    /\ active_orders' = ActiveOrdersAfterCancel(corder)
    /\ cpc' = "l338"
    /\ UNCHANGED <<ticks, orders, trades, accounts, contracts, positions, queue, disp,
                   feed, cargs, ctick, ccontract, cposition, ret, sent, logged,
                   corder, subscribed, prev>>

cancel_active_order_l338 ==
    /\ cpc = "l338"
    /\ log("Cancel active order", NoneVal, corder)
    /\ cpc' = "done"
    /\ UNCHANGED <<cache, disp, feed, cargs, ctick, ccontract, cposition, ret, sent,
                   side>>

(* ---------------------------- subscription ----------------------------- *)
\* susbcribe runs on the caller's thread: for each symbol it reads contracts
\* (line 312) and, when one is cached, calls subscribe on the subscribe
\* gateway, the first gateway registered (105); it logs at the end (319).
get_subscribe_gateway_name == "G1"

SubscribeRequest(contract) == [symbol |-> contract.symbol, exchange |-> contract.exchange]

susbcribe(vt_symbols) ==
    /\ cpc = "idle"
    /\ cargs' = [intent |-> "susbcribe", vt_symbols |-> vt_symbols, rest |-> vt_symbols]
    /\ cpc' = "l311"
    /\ UNCHANGED <<cache, queue, disp, feed, ctick, ccontract, cposition, ret, sent,
                   logged, side>>

susbcribe_l312 ==
    /\ cpc = "l311"
    /\ cargs.rest # <<>>
    /\ LET contract == get_contract(Head(cargs.rest))
           gateway == get_gateway(get_subscribe_gateway_name)
       IN  subscribed' = IF contract # NoneVal /\ gateway # NoneVal
                         THEN Append(subscribed, [gateway_name |-> gateway.gateway_name,
                                                  req |-> SubscribeRequest(contract)])
                         ELSE subscribed
    /\ cargs' = [cargs EXCEPT !.rest = Tail(@)]
    /\ UNCHANGED <<cache, queue, disp, feed, cpc, ctick, ccontract, cposition, ret,
                   sent, logged, corder, cancels, prev>>

susbcribe_l319 ==
    /\ cpc = "l311"
    /\ cargs.rest = <<>>
    /\ log("Subscribe", get_subscribe_gateway_name, cargs.vt_symbols)
    /\ cpc' = "done"
    /\ UNCHANGED <<cache, disp, feed, cargs, ctick, ccontract, cposition, ret, sent,
                   side>>

(* ------------------- the engine fed by its gateways -------------------- *)
\* Spec: the engine from construction, its gateways publishing up to MaxEvents
\* events in any interleaving with the dispatcher.
FeedSymbols == {<<"X", "SHFE">>}
FeedPositions == {<<1, 0, 0>>, <<1, 0, 1>>}

Next ==
    \/ \E g \in Gateways, s \in FeedSymbols, q \in Quotes : on_tick(g, s, q)
    \/ \E g \in Gateways, s \in FeedSymbols, p \in PriceTicks : on_contract(g, s, p)
    \/ \E g \in Gateways, s \in FeedSymbols, x \in FeedPositions :
          on_position(g, s, "LONG", x[1], x[2], x[3])
    \/ \E g \in Gateways, st \in Statuses : on_order(g, OrderRef[g][1], st)
    \/ \E g \in Gateways, d \in TradeDirections : on_trade(g, TradeRef[g], d)
    \/ \E g \in Gateways, b \in Balances : on_account(g, b)
    \/ _process_tick_event
    \/ _process_order_event_l203
    \/ _process_order_event_l205
    \/ _process_trade_event
    \/ _process_position_event
    \/ _process_contract_event
    \/ _process_account_event
    \/ _process_log_event

Spec == Init /\ [][Next]_vars

(* ------------- the router on the caches the engine reaches ------------- *)
\* RouterSpec: one trading intent, run on every cache the handlers above leave
\* after at most one tick event, one contract event (for the same symbol) and
\* one position event (any gateway, symbol, direction, and any volume, frozen
\* and yd_volume with frozen, yd_volume <= volume <= MaxVol), with every
\* symbol, volume 1..MaxVol and gateway name as arguments.
CachedTicks ==
    {EmptyTicks} \cup
    {[EmptyTicks EXCEPT ![s] = TickData(s, q)] : s \in VtSymbols, q \in Quotes}

CachedContracts ==
    {EmptyContracts} \cup
    {[EmptyContracts EXCEPT ![s] = ContractData(s, p)] : s \in VtSymbols, p \in PriceTicks}

PositionValues ==
    {<<v, f, y>> \in (0..MaxVol) \X (0..MaxVol) \X (0..MaxVol) : f <= v /\ y <= v}

CachedPositions ==
    {EmptyPositions} \cup
    {[EmptyPositions EXCEPT ![id] = PositionData(id[1], id[2], id[3], x[1], x[2], x[3])] :
        id \in PositionIds, x \in PositionValues}

RouterInit ==
    /\ ticks \in CachedTicks
    /\ contracts \in CachedContracts
    /\ \A s \in VtSymbols : ticks[s] # NoneVal => \A t \in VtSymbols \ {s} : contracts[t] = NoneVal
    /\ positions \in CachedPositions
    /\ EngineInit
    /\ CallerInit

RouterNext ==
    \/ \E s \in VtSymbols, v \in 1..MaxVol, g \in GatewayNames : buy(s, v, g)
    \/ \E s \in VtSymbols, v \in 1..MaxVol, g \in GatewayNames : sell(s, v, g)
    \/ \E s \in VtSymbols, v \in 1..MaxVol, g \in GatewayNames : short(s, v, g)
    \/ \E s \in VtSymbols, v \in 1..MaxVol, g \in GatewayNames : cover(s, v, g)
    \/ _send_taker_order_l134
    \/ _send_taker_order_l158
    \/ _send_order

RouterSpec == RouterInit /\ [][RouterNext]_vars

\* FaultSpec: the gateways publish up to MaxEvents trade and account events,
\* and a trade event may come without a direction.
FaultNext ==
    \/ \E g \in Gateways, d \in TradeDirectionsOrNone : on_trade(g, TradeRef[g], d)
    \/ \E g \in Gateways, b \in Balances : on_account(g, b)
    \/ _process_trade_event
    \/ _process_trade_event_raises
    \/ _process_account_event
    \/ _process_log_event

FaultSpec == Init /\ [][FaultNext]_vars

\* RetrySpec: the intent returns and the caller issues the same intent (same
\* symbol, volume and gateway) once more; no event is dispatched in between.
\* It starts from the caches of RouterSpec that hold a quote and a contract.
RetryInit ==
    /\ RouterInit
    /\ ticks # EmptyTicks
    /\ contracts # EmptyContracts

Again == prev = NoneVal \/ cargs' = prev.args

RetryNext ==
    \/ \E s \in VtSymbols, v \in 1..MaxVol, g \in GatewayNames : buy(s, v, g) /\ Again
    \/ \E s \in VtSymbols, v \in 1..MaxVol, g \in GatewayNames : sell(s, v, g) /\ Again
    \/ \E s \in VtSymbols, v \in 1..MaxVol, g \in GatewayNames : short(s, v, g) /\ Again
    \/ \E s \in VtSymbols, v \in 1..MaxVol, g \in GatewayNames : cover(s, v, g) /\ Again
    \/ _send_taker_order_l134
    \/ _send_taker_order_l158
    \/ _send_order
    \/ Return

RetrySpec == RetryInit /\ [][RetryNext]_vars

\* PositionsSpec: one close intent on caches that hold a quote and a contract
\* for one symbol and up to two positions, under any two position ids.
OtherPositionValues == {<<1, 0, 0>>, <<2, 0, 1>>}

PositionsInit ==
    /\ \E s \in {<<"X", "SHFE">>, <<"X", "CFFEX">>}, q \in Quotes, p \in PriceTicks :
          /\ ticks = [EmptyTicks EXCEPT ![s] = TickData(s, q)]
          /\ contracts = [EmptyContracts EXCEPT ![s] = ContractData(s, p)]
    /\ \E one \in CachedPositions :
          \/ positions = one
          \/ \E id \in PositionIds, x \in OtherPositionValues :
                /\ one[id] = NoneVal
                /\ positions = [one EXCEPT ![id] =
                                   PositionData(id[1], id[2], id[3], x[1], x[2], x[3])]
    /\ EngineInit
    /\ CallerInit

PositionsNext ==
    \/ \E v \in 1..MaxVol, g \in GatewayNames : sell(<<"X", "SHFE">>, v, g)
    \/ \E v \in 1..MaxVol, g \in GatewayNames : cover(<<"X", "SHFE">>, v, g)
    \/ \E v \in 1..MaxVol, g \in GatewayNames : sell(<<"X", "CFFEX">>, v, g)
    \/ _send_taker_order_l134
    \/ _send_taker_order_l158
    \/ _send_order

PositionsSpec == PositionsInit /\ [][PositionsNext]_vars

\* FailSpec: RouterSpec with a gateway whose send_order may also raise.
FailNext ==
    \/ RouterNext
    \/ _send_order_raises

FailSpec == RouterInit /\ [][FailNext]_vars

(* ------------------ cancelling while orders are updated ---------------- *)
\* CancelSpec: the gateways publish up to MaxEvents order events while the
\* caller runs one cancel_active_order, for an order id of either gateway or
\* for one no event ever names.
CancelIds == {OrderRef[g][1] : g \in Gateways} \cup {OrderRef["G1"][2]}

CancelNext ==
    \/ \E g \in Gateways, st \in Statuses : on_order(g, OrderRef[g][1], st)
    \/ _process_order_event_l203
    \/ _process_order_event_l205
    \/ _process_log_event
    \/ \E o \in CancelIds : cancel_active_order(o)
    \/ _cancel_order
    \/ cancel_active_order_l338

CancelSpec == Init /\ [][CancelNext]_vars

(* ---------------- every operation on the running engine ---------------- *)
\* FrameSpec: gateway G1 publishes up to MaxEvents events, one of each kind,
\* while the caller runs one operation: a trading intent, a cancel or a
\* subscription.
FrameSymbol == <<"X", "SHFE">>

FrameNext ==
    \/ \E q \in Quotes : on_tick("G1", FrameSymbol, q)
    \/ on_contract("G1", FrameSymbol, 1)
    \/ on_position("G1", FrameSymbol, "LONG", 1, 0, 0)
    \/ \E st \in {"NOTTRADED", "CANCELLED"} : on_order("G1", OrderRef["G1"][1], st)
    \/ \E d \in TradeDirections : on_trade("G1", TradeRef["G1"], d)
    \/ \E b \in Balances : on_account("G1", b)
    \/ _process_tick_event
    \/ _process_order_event_l203
    \/ _process_order_event_l205
    \/ _process_trade_event
    \/ _process_position_event
    \/ _process_contract_event
    \/ _process_account_event
    \/ _process_log_event
    \/ buy(FrameSymbol, 1, "G1")
    \/ sell(FrameSymbol, 1, "G1")
    \/ short(FrameSymbol, 1, "G1")
    \/ cover(FrameSymbol, 1, "G1")
    \/ _send_taker_order_l134
    \/ _send_taker_order_l158
    \/ _send_order
    \/ cancel_active_order(OrderRef["G1"][1])
    \/ _cancel_order
    \/ cancel_active_order_l338
    \/ susbcribe(<<FrameSymbol>>)
    \/ susbcribe_l312
    \/ susbcribe_l319

FrameSpec == Init /\ [][FrameNext]_vars

(* ============================== claims ================================= *)
Done == cpc = "done"

CloseIntent == cpc # "idle" /\ cargs.intent \in {"sell", "cover"}

\* the intent read a quote, a contract and an opposing position that covers
\* the requested volume
Closable ==
    /\ Done /\ CloseIntent
    /\ ctick # NoneVal /\ ccontract # NoneVal /\ cposition # NoneVal
    /\ cposition.volume - cposition.frozen >= cargs.volume

OnAgingExchange == ccontract.exchange \in {"SHFE", "INE"}

Mixed == 0 < cposition.yd_volume /\ cposition.yd_volume < cposition.volume

\* C1: a close intent (sell or cover) on SHFE or INE whose opposing position
\* has 0 < yd_volume < volume and volume - frozen >= the requested volume makes
\* exactly two send_order calls, one close-yesterday of yd_volume - frozen and
\* one close-today of requested - (yd_volume - frozen); the two volumes sum to
\* the requested volume and two identifiers are returned.
C1_SplitTwoLegs ==
    (Closable /\ OnAgingExchange /\ Mixed) =>
        /\ Len(sent) = 2
        /\ Len(ret) = 2
        /\ \E i, j \in 1..2 :
             /\ i # j
             /\ sent[i].req.offset = "CLOSEYESTERDAY"
             /\ sent[i].req.volume = cposition.yd_volume - cposition.frozen
             /\ sent[j].req.offset = "CLOSETODAY"
             /\ sent[j].req.volume =
                    cargs.volume - (cposition.yd_volume - cposition.frozen)
             /\ sent[i].req.volume + sent[j].req.volume = cargs.volume

C1_Witness ==
    /\ Closable /\ OnAgingExchange /\ Mixed
    /\ cposition.frozen > 0
    /\ Len(sent) = 2

\* C2 as stated: in a split close the close-yesterday leg is sent first and the
\* close-today leg second, and the identifiers are returned in that order.
C2_YesterdayLegFirst ==
    (Done /\ Len(sent) = 2) =>
        /\ sent[1].req.offset = "CLOSEYESTERDAY"
        /\ sent[2].req.offset = "CLOSETODAY"
        /\ ret = <<sent[1].vt_orderid, sent[2].vt_orderid>>

\* C2 amended: in a split close the close-today leg is sent to the gateway
\* first and the close-yesterday leg second, and the returned sequence is in
\* that same order (first entry the close-today leg's identifier).
C2_TodayLegFirst ==
    /\ (Closable /\ OnAgingExchange /\ Mixed) =>
          /\ Len(sent) = 2
          /\ sent[1].req.offset = "CLOSETODAY"
          /\ sent[2].req.offset = "CLOSEYESTERDAY"
          /\ ret = <<sent[1].vt_orderid, sent[2].vt_orderid>>
    /\ (cpc = "l187" /\ Len(sent) = 1) =>
          /\ sent[1].req.offset = "CLOSETODAY"
          /\ ret = <<sent[1].vt_orderid>>

C2_Witness ==
    /\ Closable /\ OnAgingExchange /\ Mixed
    /\ Len(sent) = 2
    /\ ret[1] # "" /\ ret[2] # "" /\ ret[1] # ret[2]

\* C3: a close intent whose opposing position has volume - frozen less than
\* the requested volume returns exactly [""] and makes no send_order call, on
\* aging and non-aging exchanges alike.
C3_InsufficientVolumeAborts ==
    (Done /\ CloseIntent /\ cposition # NoneVal
          /\ cposition.volume - cposition.frozen < cargs.volume) =>
        /\ ret = <<"">>
        /\ sent = <<>>

C3_Witness ==
    /\ Done /\ CloseIntent /\ cposition # NoneVal
    /\ cposition.frozen > 0
    /\ cposition.volume >= cargs.volume
    /\ cposition.volume - cposition.frozen < cargs.volume
    /\ OnAgingExchange /\ Mixed

\* C4: an intent (buy, sell, short or cover) that finds no quote or no contract
\* for its symbol returns exactly [""], puts the missing-market-data log event
\* on the queue and makes no send_order call; it never gets as far as looking
\* up a position or sending.
C4_MissingMarketDataAborts ==
    /\ (Done /\ (ctick = NoneVal \/ ccontract = NoneVal)) =>
          /\ ret = <<"">>
          /\ sent = <<>>
          /\ cposition = NoneVal
          /\ logged = <<LogData(cargs.gateway_name, "Tick or contract data is none",
                                NoneVal)>>
          /\ queue # <<>> /\ queue[Len(queue)] = Event("eLog", logged[1])
    /\ cpc \in {"l158", "l187"} => (ctick # NoneVal /\ ccontract # NoneVal)

C4_Witness ==
    /\ Done
    /\ ctick # NoneVal /\ ccontract = NoneVal
    /\ cargs.intent = "cover"
    /\ cargs.gateway_name \in Gateways
    /\ positions[<<cargs.gateway_name, cargs.vt_symbol, "SHORT">>] # NoneVal
    /\ ret = <<"">>

Drained == queue = <<>> /\ dpc = "idle"

Terminal(order) == order.status \in {"ALLTRADED", "CANCELLED", "REJECTED"}

\* C5 as stated: in every state a thread can observe, an order id is in
\* active_orders exactly when the order cached under it in orders is not
\* terminal, and the indexed order is the cached order.
C5_ActiveIndexAlwaysConsistent ==
    \A o \in OrderIds :
        /\ active_orders[o] # NoneVal <=> (orders[o] # NoneVal /\ ~Terminal(orders[o]))
        /\ active_orders[o] # NoneVal => active_orders[o] = orders[o]

\* C6: once the event queue is drained and the dispatcher is idle, every order
\* and position id holds the last event the gateways put for it, every trade id
\* put is cached, and active_orders is exactly the cached orders whose status
\* is not terminal.
C6_DrainedCacheConsistent ==
    Drained =>
        /\ \A o \in OrderIds : orders[o] = lastput.order[o]
        /\ \A p \in PositionIds : positions[p] = lastput.position[p]
        /\ \A t \in TradeIds : t \in lastput.trade <=> trades[t] # NoneVal
        /\ \A o \in OrderIds :
             active_orders[o] =
                IF orders[o] # NoneVal /\ ~Terminal(orders[o]) THEN orders[o] ELSE NoneVal

C6_Witness ==
    /\ Drained
    /\ published = MaxEvents
    /\ \E g, h \in Gateways :
         /\ g # h
         /\ lastput.order[OrderRef[g][1]] # NoneVal
         /\ Terminal(lastput.order[OrderRef[g][1]])
         /\ TradeRef[h] \in lastput.trade
         /\ \E p \in PositionIds : p[1] = h /\ lastput.position[p] # NoneVal

\* C7: a close intent on an exchange other than SHFE and INE, with quote,
\* contract and opposing position cached and volume - frozen >= the requested
\* volume, makes exactly one send_order call, with offset CLOSE and the
\* requested volume, whatever the position's yd_volume.
C7_NonAgingSingleClose ==
    (Closable /\ ~OnAgingExchange) =>
        /\ Len(sent) = 1
        /\ Len(ret) = 1
        /\ sent[1].req.offset = "CLOSE"
        /\ sent[1].req.volume = cargs.volume

C7_Witness ==
    /\ Closable /\ ~OnAgingExchange /\ Mixed
    /\ Len(sent) = 1

\* C8: a close intent on SHFE or INE whose opposing position has yd_volume = 0
\* and volume - frozen >= the requested volume makes exactly one send_order
\* call, with offset CLOSETODAY and the full requested volume.
C8_AgingNoYesterdayClosesToday ==
    (Closable /\ OnAgingExchange /\ cposition.yd_volume = 0) =>
        /\ Len(sent) = 1
        /\ Len(ret) = 1
        /\ sent[1].req.offset = "CLOSETODAY"
        /\ sent[1].req.volume = cargs.volume

C8_Witness ==
    /\ Closable /\ OnAgingExchange /\ cposition.yd_volume = 0
    /\ cposition.volume > cargs.volume
    /\ Len(sent) = 1

\* C9: a close intent on SHFE or INE whose opposing position has
\* volume = yd_volume > 0 and volume - frozen >= the requested volume makes
\* exactly one send_order call, with offset CLOSEYESTERDAY and the full
\* requested volume.
C9_AgingAllYesterdayClosesYesterday ==
    (Closable /\ OnAgingExchange /\ cposition.yd_volume > 0
              /\ cposition.volume = cposition.yd_volume) =>
        /\ Len(sent) = 1
        /\ Len(ret) = 1
        /\ sent[1].req.offset = "CLOSEYESTERDAY"
        /\ sent[1].req.volume = cargs.volume

C9_Witness ==
    /\ Closable /\ OnAgingExchange /\ cposition.yd_volume > 0
    /\ cposition.volume = cposition.yd_volume
    /\ cposition.frozen > 0
    /\ Len(sent) = 1

OpenIntent == cpc # "idle" /\ cargs.intent \in {"buy", "short"}

\* C10: every request an intent sends is a LIMIT order, long for buy and cover
\* and short for sell and short, priced from the quote and contract the intent
\* read: best ask + 2 * pricetick when long, best bid - 2 * pricetick when
\* short; both legs of a split close carry the same price.  An open intent with
\* quote and contract cached builds exactly one request, with offset OPEN and
\* the requested volume, and reads no position; on a registered gateway that
\* request is the one send_order call.  (pricetick 1, bid/ask 99/101, buy of 5:
\* one request, price 103, volume 5, long, open.)
C10_MarketableLimitPrice ==
    /\ \A i \in 1..Len(sent) :
         LET req == sent[i].req IN
           /\ req.type = "LIMIT"
           /\ req.direction = IF cargs.intent \in {"buy", "cover"} THEN "LONG" ELSE "SHORT"
           /\ req.direction = "LONG" =>
                req.price = ctick.ask_price_1 + 2 * ccontract.pricetick
           /\ req.direction = "SHORT" =>
                req.price = ctick.bid_price_1 - 2 * ccontract.pricetick
           /\ req.price = sent[1].req.price
    /\ (Done /\ OpenIntent /\ ctick # NoneVal /\ ccontract # NoneVal) =>
           /\ cposition = NoneVal
           /\ Len(ret) = 1
           /\ Len(reqs) = 1
           /\ reqs[1].offset = "OPEN"
           /\ reqs[1].volume = cargs.volume
           /\ cargs.gateway_name \in Gateways =>
                (Len(sent) = 1 /\ sent[1].req = reqs[1])
    /\ LET s == <<"X", "SHFE">> IN
         TakerReqs(TickData(s, [bid_price_1 |-> 99, ask_price_1 |-> 101]),
                   ContractData(s, 1), NoneVal, 5, "LONG", "OPEN")
           = <<OrderRequest("X", "SHFE", 103, 5, "LONG", "OPEN", "LIMIT")>>

C10_Witness ==
    /\ Done
    /\ cargs.intent = "buy"
    /\ ccontract # NoneVal /\ ccontract.pricetick = 1
    /\ Len(sent) = 1
    /\ sent[1].req.price = 103
    /\ sent[1].req.offset = "OPEN"
    /\ sent[1].req.volume = cargs.volume

CancelCall == cpc # "idle" /\ cargs.intent = "cancel"

\* C11: cancel_active_order called with an order id that is not in
\* active_orders (never seen, or already terminal) returns at once: it makes
\* no cancel_order call, puts no log event, raises nothing and leaves every
\* registry and the queue as they were.
C11_CancelInactiveIsNoOp ==
    [][(cpc = "idle" /\ cpc' # "idle" /\ cargs'.intent = "cancel"
          /\ active_orders[cargs'.vt_orderid] = NoneVal) =>
            /\ cpc' = "done"
            /\ corder' = NoneVal
            /\ UNCHANGED <<cache, queue, disp, logged, cancels>>]_vars

C11_Witness ==
    /\ Done /\ CancelCall
    /\ corder = NoneVal
    /\ cancels = <<>> /\ logged = <<>>
    /\ orders[cargs.vt_orderid] # NoneVal
    /\ orders[cargs.vt_orderid].status = "CANCELLED"

\* C12: once a contract is cached under a symbol id, no step of the engine
\* changes the contract cached under that id: a later contract event for the
\* same id (another tick size, another gateway) is dropped, and no other event
\* kind touches contracts.
C12_ContractFirstWriteWins ==
    [][\A s \in VtSymbols :
          contracts[s] # NoneVal => contracts'[s] = contracts[s]]_vars

C12_Witness ==
    /\ Drained
    /\ \E s \in VtSymbols :
          /\ contracts[s] # NoneVal
          /\ lastput.contract[s] # NoneVal
          /\ lastput.contract[s].pricetick # contracts[s].pricetick

TradingIntent == cpc # "idle" /\ cargs.intent \in {"buy", "sell", "short", "cover"}

\* C13: whenever the sequence a trading intent returns contains an empty
\* identifier, that intent has put at least one log event.
C13_EmptyIdHasLog ==
    (Done /\ TradingIntent /\ \E i \in 1..Len(ret) : ret[i] = "") => logged # <<>>

\* C14: when gateway.send_order fails for a leg the intent goes on: each pass
\* of the send loop appends one entry to the returned sequence (the empty
\* string for the failed leg) and either moves to the next leg or returns, so
\* no error reaches the caller.
C14_FailedLegStillReturns ==
    [][cpc = "l187" =>
         /\ cpc' \in {"l187", "done"}
         /\ Len(ret') = Len(ret) + 1]_vars

\* C15: when the handler of a trade event without a direction fails, the
\* dispatcher catches and logs the failure (a log event is enqueued) and stays
\* ready, so the events queued after it are still dispatched.
C15_HandlerFailureContained ==
    [][(Pending("eTrade") /\ Head(queue).data.direction = NoneVal
          /\ published' = published) =>
            /\ dpc' = "idle"
            /\ Len(queue') = Len(queue)
            /\ queue'[Len(queue')].type = "eLog"]_vars

\* the dispatcher is handling an event of the given kind in this step
Handling(type) ==
    \/ Pending(type)
    \/ dpc # "idle" /\ devent.type = type

\* C16: a registry changes only in a step of the handler of its own event
\* kind, and that step changes no other registry (the order handler changes
\* orders and active_orders); every step of a trading intent, of
\* cancel_active_order and of susbcribe leaves all seven unchanged.
C16_RegistriesChangeOnlyInOwnHandler ==
    [][/\ ticks' # ticks =>
            Handling("eTick") /\ UNCHANGED <<orders, trades, accounts, contracts,
                                             positions, active_orders>>
       /\ (orders' # orders \/ active_orders' # active_orders) =>
            Handling("eOrder") /\ UNCHANGED <<ticks, trades, accounts, contracts,
                                              positions>>
       /\ trades' # trades =>
            Handling("eTrade") /\ UNCHANGED <<ticks, orders, accounts, contracts,
                                              positions, active_orders>>
       /\ positions' # positions =>
            Handling("ePosition") /\ UNCHANGED <<ticks, orders, trades, accounts,
                                                 contracts, active_orders>>
       /\ contracts' # contracts =>
            Handling("eContract") /\ UNCHANGED <<ticks, orders, trades, accounts,
                                                 positions, active_orders>>
       /\ accounts' # accounts =>
            Handling("eAccount") /\ UNCHANGED <<ticks, orders, trades, contracts,
                                                positions, active_orders>>
       /\ caller' # caller => UNCHANGED cache]_vars

\* the dispatcher has filled registries and a caller operation that called a
\* gateway has returned
C16_Witness ==
    /\ Done
    /\ cargs.intent \in {"sell", "cancel", "susbcribe"}
    /\ sent # <<>> \/ cancels # <<>> \/ subscribed # <<>>
    /\ contracts[FrameSymbol] # NoneVal
    /\ orders[OrderRef["G1"][1]] # NoneVal

Requests(calls) == [i \in 1..Len(calls) |-> calls[i].req]

\* C17: when the same intent is issued a second time with no event dispatched
\* in between, it runs the same checks on the same cache and makes the same
\* send_order calls as the first (same count, offsets, volumes, prices, same
\* gateway) and returns as many identifiers: the gateway has then received
\* both sets.
C17_RetrySendsSameRequests ==
    (Done /\ TradingIntent /\ prev # NoneVal) =>
        /\ cargs = prev.args
        /\ Requests(sent) = Requests(prev.sent)
        /\ \A i \in 1..Len(sent) : sent[i].gateway_name = prev.sent[i].gateway_name
        /\ Len(ret) = Len(prev.ret)
        /\ SendCount = 2 * Len(sent)

\* a close of the whole available volume, split in two legs, sent twice
C17_Witness ==
    /\ Done /\ CloseIntent /\ prev # NoneVal
    /\ cposition # NoneVal
    /\ cargs.volume = cposition.volume - cposition.frozen
    /\ Len(sent) = 2 /\ Len(prev.sent) = 2
    /\ \A i \in 1..2 : sent[i].vt_orderid # "" /\ prev.sent[i].vt_orderid # ""
    /\ \A i, j \in 1..2 : sent[i].vt_orderid # prev.sent[j].vt_orderid

\* C18 as stated: once a terminal order event has been handled for an order
\* id, the order cached under it stays terminal and the id stays out of
\* active_orders.
C18_TerminalAbsorbing ==
    \A o \in lastput.terminated :
        /\ Terminal(orders[o])
        /\ active_orders[o] = NoneVal

\* C18 amended: the cache takes every order event as it comes.  A cached
\* terminal order changes only when the handler stores a later order event for
\* the same id, and the handler then indexes the id by that event's status
\* alone: out of active_orders for a terminal event, back in for an active one.
C18_TerminalUntilOverwritten ==
    [][/\ \A o \in OrderIds :
            (orders[o] # NoneVal /\ Terminal(orders[o]) /\ orders'[o] # orders[o]) =>
                 /\ Pending("eOrder")
                 /\ Head(queue).data.vt_orderid = o
                 /\ orders'[o] = Head(queue).data
       /\ (dpc = "l205" /\ dpc' = "idle") =>
            active_orders'[devent.data.vt_orderid] =
                IF is_active(devent.data) THEN devent.data ELSE NoneVal]_vars

\* an order whose terminal event was handled is active and indexed again
C18_Witness ==
    /\ Drained
    /\ \E o \in lastput.terminated :
          /\ is_active(orders[o])
          /\ active_orders[o] = orders[o]

\* C19: for a cached position with frozen <= volume and yd_volume <= volume
\* and a requested close volume with 0 < requested <= volume - frozen, every
\* request a close intent sends has a volume greater than 0 and not greater
\* than the requested volume.
C19_CloseLegVolumesBounded ==
    (Closable /\ cposition.frozen <= cposition.volume
              /\ cposition.yd_volume <= cposition.volume
              /\ 0 < cargs.volume) =>
        \A i \in 1..Len(sent) :
            /\ 0 < sent[i].req.volume
            /\ sent[i].req.volume <= cargs.volume

\* the position a close intent on gateway G for symbol S is decided by: the
\* one cached under {G}.{S}.{opposing direction}, if any
OpposingPosition ==
    LET id == <<cargs.gateway_name, cargs.vt_symbol,
                IF cargs.intent = "cover" THEN "SHORT" ELSE "LONG">>
    IN  IF id \in PositionIds THEN positions[id] ELSE NoneVal

\* C20: the outcome of a close intent on gateway G for symbol S is determined
\* by the quote, the contract and the position cached under
\* {G}.{S}.{opposing direction} alone: without that position, or without
\* enough volume in it, the intent aborts whatever else is cached; otherwise
\* the requests sent are those computed from that position, and each goes to
\* gateway G only.
C20_OutcomeFromOpposingPositionOnly ==
    (Done /\ CloseIntent /\ ctick # NoneVal /\ ccontract # NoneVal) =>
        /\ cposition = OpposingPosition
        /\ IF OpposingPosition = NoneVal
              \/ OpposingPosition.volume - OpposingPosition.frozen < cargs.volume
           THEN sent = <<>> /\ ret = <<"">>
           ELSE /\ cargs.gateway_name \in Gateways =>
                    Requests(sent) = TakerReqs(ctick, ccontract, OpposingPosition,
                                               cargs.volume, cargs.direction, "CLOSE")
                /\ Len(ret) = Len(TakerReqs(ctick, ccontract, OpposingPosition,
                                            cargs.volume, cargs.direction, "CLOSE"))
        /\ \A i \in 1..Len(sent) : sent[i].gateway_name = cargs.gateway_name

\* the intent closed G's position while the other gateway holds a different
\* position on the same symbol and side
C20_Witness ==
    /\ Done /\ CloseIntent
    /\ sent # <<>>
    /\ OpposingPosition # NoneVal
    /\ \E g \in Gateways \ {cargs.gateway_name} :
          LET other == positions[<<g, cargs.vt_symbol, OpposingPosition.direction>>]
          IN  /\ other # NoneVal
              /\ other.volume # OpposingPosition.volume
              /\ other.yd_volume # OpposingPosition.yd_volume

\* the handler has applied a terminal order event for this id: the cached order
\* is terminal and the id is out of active_orders
TerminalApplied(vt_orderid) ==
    /\ orders[vt_orderid] # NoneVal
    /\ Terminal(orders[vt_orderid])
    /\ active_orders[vt_orderid] = NoneVal

\* C21: cancel_active_order makes at most one cancel_order call, for the
\* order it found in active_orders, built from that order and sent to the
\* gateway the order names; and at the moment of the call the terminal update
\* of that order has not been applied to the cache, whatever the dispatcher
\* did in between.
C21_CancelOnlyActiveOrder ==
    [][cancels' # cancels =>
         /\ cancels = <<>>
         /\ cancels' = <<[gateway_name |-> corder.gateway_name,
                          req |-> CancelRequest(corder)]>>
         /\ corder.vt_orderid = cargs.vt_orderid
         /\ ~TerminalApplied(corder.vt_orderid)]_vars
====
